---- MODULE Spec2Model ----
(***************************************************************************)
(* Lab_Space_Viewer (main.py): load an image, resample it to a target      *)
(* resolution, convert its pixels to CIE-Lab, and build a 3D scatter and a *)
(* row of a*-b* panels, one per requested lightness level.                 *)
(*                                                                         *)
(* Real numbers are kept in fixed point.  An RGB channel value v stands    *)
(* for the real v / One, so that the byte b is b * One and the floats 1/2  *)
(* and b/255 are both integers.  Lab components are kept in whole Lab      *)
(* units.  A numpy array is its dtype, its shape and its C-order buffer.   *)
(***************************************************************************)
EXTENDS Integers, Sequences, FiniteSets, TLC

VARIABLES pc, stages, file, target_dpi, L_values, loaded, image_array,
          converted, ranges, lab_pixels, colors, fig3d, planes, shown

vars == <<pc, stages, file, target_dpi, L_values, loaded, image_array,
          converted, ranges, lab_pixels, colors, fig3d, planes, shown>>

\* ------------------------------------------------------------------ bounds

MaxW == 4
MaxH == 2
MaxPixels == 4
MaxSamples == 3
MaxLevels == 2

\* --------------------------------------------------------------- constants

Byte == 255
One == 2 * Byte
DefaultDpi == 72
tolerance == 5

\* ----------------------------------------------------------------- helpers

Abs(x) == IF x < 0 THEN -x ELSE x

\* int(n / d) for d # 0: Python's int() of a float truncates toward zero.
\* (For the sizes and resolutions drawn here the float product
\* width * (target / original) truncates to the same integer as the exact
\* quotient.)
int(n, d) ==
    LET q == Abs(n) \div Abs(d)
    IN  IF (n < 0) # (d < 0) THEN -q ELSE q

RECURSIVE SeqMax(_)
SeqMax(s) ==
    IF Len(s) = 1 THEN s[1]
    ELSE LET m == SeqMax(Tail(s)) IN IF s[1] > m THEN s[1] ELSE m

RECURSIVE SeqMin(_)
SeqMin(s) ==
    IF Len(s) = 1 THEN s[1]
    ELSE LET m == SeqMin(Tail(s)) IN IF s[1] < m THEN s[1] ELSE m

RECURSIVE Repeat(_, _)
Repeat(px, n) == IF n = 0 THEN <<>> ELSE px \o Repeat(px, n - 1)

NoArray == [dtype |-> "none", shape |-> <<>>, data |-> <<>>]

\* ------------------------------------------------------------ image loader

\* np.array(img): a PIL image of mode L gives shape (h, w), RGB gives
\* (h, w, 3), RGBA gives (h, w, 4); 8-bit modes give dtype uint8.
Bands(mode) == CASE mode = "L" -> 1 [] mode = "RGB" -> 3 [] mode = "RGBA" -> 4

\* img.resize(new_size, LANCZOS) followed by np.array(img_resized), for an
\* image of one solid colour (the Lanczos kernel is normalised, so the
\* resampled image has that colour everywhere).
np_array_resized(f, new_size) ==
    [dtype |-> "uint8",
     shape |-> IF Bands(f.mode) = 1 THEN <<new_size[2], new_size[1]>>
               ELSE <<new_size[2], new_size[1], Bands(f.mode)>>,
     data  |-> Repeat(f.color, new_size[1] * new_size[2])]

load_and_downsample_image(f, target) ==
    LET original_dpi == IF f.dpi = <<>> THEN <<DefaultDpi, DefaultDpi>>[1]
                        ELSE f.dpi[1]
    IN  IF original_dpi = 0
        THEN \* target_dpi / original_dpi raises ZeroDivisionError
             [status |-> "ZeroDivisionError", original_dpi |-> original_dpi,
              divided_by_zero |-> TRUE, scale |-> <<>>, new_size |-> <<>>,
              resize_called |-> FALSE, array |-> NoArray]
        ELSE LET scale == <<target, original_dpi>>
                 new_size == <<int(f.width * scale[1], scale[2]),
                               int(f.height * scale[1], scale[2])>>
             IN  IF new_size[1] < 1 \/ new_size[2] < 1
                 THEN \* Image.resize rejects a size that is not positive
                      [status |-> "ValueError", original_dpi |-> original_dpi,
                       divided_by_zero |-> FALSE, scale |-> scale,
                       new_size |-> new_size, resize_called |-> TRUE,
                       array |-> NoArray]
                 ELSE [status |-> "ok", original_dpi |-> original_dpi,
                       divided_by_zero |-> FALSE, scale |-> scale,
                       new_size |-> new_size, resize_called |-> TRUE,
                       array |-> np_array_resized(f, new_size)]

NotLoaded ==
    [status |-> "none", original_dpi |-> 0, divided_by_zero |-> FALSE,
     scale |-> <<>>, new_size |-> <<>>, resize_called |-> FALSE,
     array |-> NoArray]

\* --------------------------------------------------------- colour converter

\* arr[y, x, c] of a C-contiguous array of shape (h, w, 3); y, x, c from 0.
PixelAt(a, y, x) ==
    LET base == (y * a.shape[2] + x) * 3
    IN  <<a.data[base + 1], a.data[base + 2], a.data[base + 3]>>

\* reshape(-1, 3) with the rows and columns of the image exchanged: a
\* column-major flattening.
reshape_pixels_transposed(a) ==
    LET h == a.shape[1]
        w == a.shape[2]
    IN  [i \in 1..(Len(a.data) \div 3) |->
            LET k == i - 1
                p == (k % h) * w + (k \div h)
            IN  <<a.data[3 * p + 1], a.data[3 * p + 2], a.data[3 * p + 3]>>]

\* a.reshape(-1, 3): consecutive triples of the C-order buffer.
reshape_pixels(a) ==
    [i \in 1..(Len(a.data) \div 3) |->
        <<a.data[3 * i - 2], a.data[3 * i - 1], a.data[3 * i]>>]

\* The sRGB -> CIE-Lab transform (D65) of one unit-range pixel, in whole Lab
\* units, for the colours the model draws.
Lab_of(px) ==
    CASE px = <<0, 0, 0>>          -> <<0, 0, 0>>
      [] px = <<2, 2, 2>>          -> <<0, 0, 0>>
      [] px = <<255, 255, 255>>    -> <<53, 0, 0>>
      [] px = <<One, 0, 0>>        -> <<53, 80, 67>>
      [] px = <<0, 0, One>>        -> <<32, 79, -108>>
      [] px = <<One, One, One>>    -> <<100, 0, 0>>

\* img_as_float on one pixel: an integer array is scaled to unit range, a
\* float array is taken as it is.
img_as_float(dtype, p) ==
    IF dtype = "uint8" THEN <<p[1] \div Byte, p[2] \div Byte, p[3] \div Byte>>
    ELSE p

\* skimage.color.rgb2lab: the last axis must hold 3 channels; the array is
\* brought to float (img_as_float) and every pixel is transformed where it
\* stands, so the result has the shape of the input.
rgb2lab(a) ==
    IF a.shape = <<>> \/ a.shape[Len(a.shape)] # 3
    THEN [ok |-> FALSE, shape |-> <<>>, data |-> <<>>]
    ELSE [ok |-> TRUE, shape |-> a.shape,
          data |-> [j \in 1..Len(a.data) |->
                       LET k == 3 * ((j - 1) \div 3)
                           p == <<a.data[k + 1], a.data[k + 2], a.data[k + 3]>>
                       IN  Lab_of(img_as_float(a.dtype, p))[((j - 1) % 3) + 1]]]

\* if image_array.max() > 1: image_array = image_array / 255.0
normalize(a) ==
    IF SeqMax(a.data) > One
    THEN [dtype |-> "float64", shape |-> a.shape,
          data |-> [j \in 1..Len(a.data) |-> a.data[j] \div Byte]]
    ELSE a

rgb_to_lab_pixels(image) ==
    LET arr == normalize(image)
        lab_image == rgb2lab(arr)
    IN  IF ~lab_image.ok
        THEN [status |-> "ValueError", lab_pixels |-> <<>>, rgb_pixels |-> <<>>]
        ELSE [status |-> "ok",
              lab_pixels |-> reshape_pixels(lab_image),
              rgb_pixels |-> reshape_pixels(arr)]

NotConverted == [status |-> "none", lab_pixels |-> <<>>, rgb_pixels |-> <<>>]

\* The Lab -> sRGB transform of one Lab triple before any clamping: out of
\* gamut and implausible triples leave [0, One].
lab2rgb(lab) ==
    CASE lab = <<0, 0, 0>>        -> <<0, 0, 0>>
      [] lab = <<5, 0, 0>>        -> <<34, 34, 34>>
      [] lab = <<20, 0, 0>>       -> <<97, 97, 97>>
      [] lab = <<32, 79, -108>>   -> <<-27, 0, 509>>
      [] lab = <<45, 0, 0>>       -> <<213, 213, 213>>
      [] lab = <<46, 10, -10>>    -> <<236, 208, 251>>
      [] lab = <<50, 127, 127>>   -> <<599, -1112, -188>>
      [] lab = <<53, 0, 0>>       -> <<253, 253, 253>>
      [] lab = <<53, 80, 67>>     -> <<508, -4, 0>>
      [] lab = <<54, -10, 10>>    -> <<236, 267, 223>>
      [] lab = <<55, 0, 0>>       -> <<263, 263, 263>>
      [] lab = <<100, 0, 0>>      -> <<One, One, One>>
      [] lab = <<150, 0, 0>>      -> <<814, 814, 814>>

\* np.clip(v, lo, hi)
np_clip(v, lo, hi) == IF v < lo THEN lo ELSE IF v > hi THEN hi ELSE v

\* The conversion with the clamp to the lower end only.
lab_to_display_color_low(lab_values) ==
    [i \in 1..Len(lab_values) |->
        LET rgb == lab2rgb(lab_values[i])
        IN  <<IF rgb[1] < 0 THEN 0 ELSE rgb[1],
              IF rgb[2] < 0 THEN 0 ELSE rgb[2],
              IF rgb[3] < 0 THEN 0 ELSE rgb[3]>>]

\* Each triple is converted as an image of its own (reshape(-1, 1, 3)), the
\* result is brought back to (n, 3) and clipped to [0, 1].
lab_to_display_color(lab_values) ==
    [i \in 1..Len(lab_values) |->
        LET rgb == lab2rgb(lab_values[i])
        IN  <<np_clip(rgb[1], 0, One), np_clip(rgb[2], 0, One),
              np_clip(rgb[3], 0, One)>>]

\* -------------------------------------------------------------- 3D scatter

plot_lab_3d(lab) ==
    LET c == lab_to_display_color(lab)
    IN  [i \in 1..Len(lab) |->
            [x |-> lab[i][2], y |-> lab[i][3], z |-> lab[i][1], c |-> c[i]]]

\* ------------------------------------------------------------ a*-b* panels

\* An axes no call has configured yet.
BlankAxes ==
    [kind |-> "blank", text |-> <<>>, points |-> <<>>, title |-> <<>>,
     xlim |-> <<>>, ylim |-> <<>>, grid |-> FALSE, aspect |-> "auto"]

\* plt.subplots(1, n): no columns is rejected (ValueError); one column gives
\* the Axes object itself, which cannot be indexed; more give an array of n.
subplots(n) ==
    IF n < 1 THEN [kind |-> "error", axes |-> <<>>]
    ELSE IF n = 1 THEN [kind |-> "Axes", axes |-> <<BlankAxes>>]
    ELSE [kind |-> "array", axes |-> [i \in 1..n |-> BlankAxes]]

\* fig, axes = plt.subplots(...); if len(L_values) == 1: axes = [axes]
panel_container(n) ==
    LET made == subplots(n)
    IN  IF n = 1 THEN [kind |-> "list", axes |-> made.axes] ELSE made

\* The band test with the boundary included.
in_band_inclusive(lab, L_target) == Abs(lab[1] - L_target) <= tolerance

\* mask = np.abs(lab_pixels[:, 0] - L_target) < tolerance
in_band(lab, L_target) == Abs(lab[1] - L_target) < tolerance

\* lab_pixels[mask]
filter_band(lab, L_target) == SelectSeq(lab, LAMBDA s : in_band(s, L_target))

placeholder_panel(L_target) ==
    [kind |-> "placeholder", text |-> <<L_target>>, points |-> <<>>,
     title |-> <<>>, xlim |-> <<-128, 127>>, ylim |-> <<-128, 127>>,
     grid |-> FALSE, aspect |-> "auto"]

scatter_panel(filtered_pixels, L_target) ==
    LET c == lab_to_display_color(filtered_pixels)
    IN  [kind |-> "scatter", text |-> <<>>,
         points |-> [i \in 1..Len(filtered_pixels) |->
                        [a |-> filtered_pixels[i][2],
                         b |-> filtered_pixels[i][3], c |-> c[i]]],
         title |-> <<L_target, tolerance, Len(filtered_pixels)>>,
         xlim |-> <<-128, 127>>, ylim |-> <<-128, 127>>,
         grid |-> TRUE, aspect |-> "equal"]

\* The loop leaving at the first empty band instead of going on.
RECURSIVE plot_loop_break(_, _, _, _)
plot_loop_break(lab, Ls, idx, acc) ==
    IF idx > Len(Ls) THEN acc
    ELSE LET filtered_pixels == filter_band(lab, Ls[idx])
         IN  IF Len(filtered_pixels) = 0
             THEN [axes |-> [acc.axes EXCEPT ![idx] = placeholder_panel(Ls[idx])],
                   stdout |-> Append(acc.stdout, Ls[idx])]
             ELSE plot_loop_break(lab, Ls, idx + 1,
                      [axes |-> [acc.axes EXCEPT
                                    ![idx] = scatter_panel(filtered_pixels, Ls[idx])],
                       stdout |-> acc.stdout])

\* for idx, L_target in enumerate(L_values): ...  (idx counts from 1 here)
RECURSIVE plot_loop(_, _, _, _)
plot_loop(lab, Ls, idx, acc) ==
    IF idx > Len(Ls) THEN acc
    ELSE LET filtered_pixels == filter_band(lab, Ls[idx])
         IN  IF Len(filtered_pixels) = 0
             THEN plot_loop(lab, Ls, idx + 1,
                      [axes |-> [acc.axes EXCEPT ![idx] = placeholder_panel(Ls[idx])],
                       stdout |-> Append(acc.stdout, Ls[idx])])
             ELSE plot_loop(lab, Ls, idx + 1,
                      [axes |-> [acc.axes EXCEPT
                                    ![idx] = scatter_panel(filtered_pixels, Ls[idx])],
                       stdout |-> acc.stdout])

plot_ab_planes(lab, Ls) ==
    LET made == panel_container(Len(Ls))
    IN  IF made.kind = "error"
        THEN [error |-> "ValueError", container |-> "none", axes |-> <<>>,
              stdout |-> <<>>]
        ELSE IF made.kind = "Axes"
        THEN \* axes[idx] on a single Axes object raises TypeError
             [error |-> "TypeError", container |-> made.kind,
              axes |-> made.axes, stdout |-> <<>>]
        ELSE LET done == plot_loop(lab, Ls, 1, [axes |-> made.axes, stdout |-> <<>>])
             IN  [error |-> "none", container |-> made.kind,
                  axes |-> done.axes, stdout |-> done.stdout]

NotPlotted ==
    [error |-> "none", container |-> "none", axes |-> <<>>, stdout |-> <<>>]

\* ------------------------------------------------------------------ inputs

\* Solid colours a file may hold, by mode (bytes, in fixed point).
FileColors(mode) ==
    CASE mode = "L"    -> {<<0>>, <<Byte * One>>}
      [] mode = "RGB"  -> {<<0, 0, 0>>, <<Byte * One, 0, 0>>,
                           <<Byte * One, Byte * One, Byte * One>>}
      [] mode = "RGBA" -> {<<Byte * One, 0, 0, Byte * One>>}

\* info['dpi'] of the file: absent, or a pair.
DpiChoices == {<<>>, <<0, 0>>, <<-72, -72>>, <<72, 72>>, <<100, 100>>, <<300, 300>>}

Files ==
    UNION {[mode : {m}, width : 1..MaxW, height : 1..MaxH, dpi : DpiChoices,
            color : FileColors(m)] : m \in {"L", "RGB", "RGBA"}}

TargetChoices == {50, 72}

LevelLists == {<<>>, <<50>>, <<0, 20, 50>>}

NoFile == [mode |-> "none", width |-> 0, height |-> 0, dpi |-> <<>>, color |-> <<>>]

\* ------------------------------------------------- analyze_tif_image (Spec)

Init ==
    /\ pc = "start"
    /\ stages = <<>>
    /\ file \in Files
    /\ target_dpi \in TargetChoices
    /\ L_values \in LevelLists
    /\ loaded = NotLoaded
    /\ image_array = NoArray
    /\ converted = NotConverted
    /\ ranges = <<>>
    /\ lab_pixels = <<>>
    /\ colors = <<>>
    /\ fig3d = <<>>
    /\ planes = NotPlotted
    /\ shown = FALSE

\* image_array = load_and_downsample_image(image_path, target_dpi)
Load ==
    /\ pc = "start"
    /\ loaded' = load_and_downsample_image(file, target_dpi)
    /\ image_array' = loaded'.array
    /\ stages' = Append(stages, "load")
    /\ pc' = IF loaded'.status = "ok" THEN "loaded" ELSE "failed"
    /\ UNCHANGED <<file, target_dpi, L_values, converted, ranges, lab_pixels,
                   colors, fig3d, planes, shown>>

\* lab_pixels, rgb_pixels = rgb_to_lab_pixels(image_array)
Convert ==
    /\ pc = "loaded"
    /\ converted' = rgb_to_lab_pixels(image_array)
    /\ lab_pixels' = converted'.lab_pixels
    /\ stages' = Append(stages, "convert")
    /\ pc' = IF converted'.status = "ok" THEN "converted" ELSE "failed"
    /\ UNCHANGED <<file, target_dpi, L_values, loaded, image_array, ranges,
                   colors, fig3d, planes, shown>>

\* The three printed ranges: min and max of L*, a*, b*.
Summary ==
    /\ pc = "converted"
    /\ ranges' = [c \in 1..3 |->
                    LET col == [i \in 1..Len(lab_pixels) |-> lab_pixels[i][c]]
                    IN  <<SeqMin(col), SeqMax(col)>>]
    /\ stages' = Append(stages, "summary")
    /\ pc' = "summarised"
    /\ UNCHANGED <<file, target_dpi, L_values, loaded, image_array, converted,
                   lab_pixels, colors, fig3d, planes, shown>>

\* plot_lab_3d(lab_pixels, image_path, plot_size)
Plot3D ==
    /\ pc = "summarised"
    /\ fig3d' = plot_lab_3d(lab_pixels)
    /\ stages' = Append(stages, "plot3d")
    /\ pc' = "plotted3d"
    /\ UNCHANGED <<file, target_dpi, L_values, loaded, image_array, converted,
                   ranges, lab_pixels, colors, planes, shown>>

\* plot_ab_planes(lab_pixels, L_values, image_path, plot_size)
PlotPlanes ==
    /\ pc = "plotted3d"
    /\ planes' = plot_ab_planes(lab_pixels, L_values)
    /\ stages' = Append(stages, "planes")
    /\ pc' = IF planes'.error = "none" THEN "built" ELSE "failed"
    /\ UNCHANGED <<file, target_dpi, L_values, loaded, image_array, converted,
                   ranges, lab_pixels, colors, fig3d, shown>>

\* plt.show()
Show ==
    /\ pc = "built"
    /\ shown' = TRUE
    /\ stages' = Append(stages, "show")
    /\ pc' = "done"
    /\ UNCHANGED <<file, target_dpi, L_values, loaded, image_array, converted,
                   ranges, lab_pixels, colors, fig3d, planes>>

Next == Load \/ Convert \/ Summary \/ Plot3D \/ PlotPlanes \/ Show

Spec == Init /\ [][Next]_vars

\* ------------------------------------ rgb_to_lab_pixels alone (SpecConvert)

\* Pixels of a byte image and of a unit-range image (the byte 1 and the
\* float 1.0 are the same number; the dtype tells them apart).
BytePalette == {<<0, 0, 0>>, <<One, One, One>>, <<Byte * One, 0, 0>>,
                <<0, 0, Byte * One>>}
UnitPalette == {<<0, 0, 0>>, <<255, 255, 255>>, <<One, 0, 0>>, <<One, One, One>>}

Shapes ==
    {sh \in {<<h, w, 3>> : h \in 1..MaxPixels, w \in 1..MaxPixels} :
        sh[1] * sh[2] <= MaxPixels}

\* The C-order buffer of a list of pixels.
Buffer(pxs) ==
    [j \in 1..(3 * Len(pxs)) |-> pxs[((j - 1) \div 3) + 1][((j - 1) % 3) + 1]]

ArraysOf(dtype, palette) ==
    UNION {{[dtype |-> dtype, shape |-> sh, data |-> Buffer(pxs)] :
               pxs \in [1..(sh[1] * sh[2]) -> palette]} : sh \in Shapes}

Arrays == ArraysOf("uint8", BytePalette) \cup ArraysOf("float64", UnitPalette)

InitConvert ==
    /\ pc = "call"
    /\ stages = <<>>
    /\ file = NoFile
    /\ target_dpi = 0
    /\ L_values = <<>>
    /\ loaded = NotLoaded
    /\ image_array \in Arrays
    /\ converted = NotConverted
    /\ ranges = <<>>
    /\ lab_pixels = <<>>
    /\ colors = <<>>
    /\ fig3d = <<>>
    /\ planes = NotPlotted
    /\ shown = FALSE

CallConvert ==
    /\ pc = "call"
    /\ converted' = rgb_to_lab_pixels(image_array)
    /\ pc' = "convert_returned"
    /\ UNCHANGED <<stages, file, target_dpi, L_values, loaded, image_array,
                   ranges, lab_pixels, colors, fig3d, planes, shown>>

SpecConvert == InitConvert /\ [][CallConvert]_vars

\* --------------------------------- lab_to_display_color alone (SpecDisplay)

\* Lab triples given to the display conversion: in gamut, out of gamut
\* (a*, b* at the edge) and implausible (L* above 100).
LabChoices ==
    {<<0, 0, 0>>, <<32, 79, -108>>, <<50, 127, 127>>, <<53, 80, 67>>,
     <<100, 0, 0>>, <<150, 0, 0>>}

RECURSIVE SeqsUpTo(_, _)
SeqsUpTo(S, n) ==
    IF n = 0 THEN {<<>>}
    ELSE LET shorter == SeqsUpTo(S, n - 1)
         IN  shorter \cup {Append(q, e) : q \in shorter, e \in S}

InitDisplay ==
    /\ pc = "call"
    /\ stages = <<>>
    /\ file = NoFile
    /\ target_dpi = 0
    /\ L_values = <<>>
    /\ loaded = NotLoaded
    /\ image_array = NoArray
    /\ converted = NotConverted
    /\ ranges = <<>>
    /\ lab_pixels \in SeqsUpTo(LabChoices, MaxSamples)
    /\ colors = <<>>
    /\ fig3d = <<>>
    /\ planes = NotPlotted
    /\ shown = FALSE

CallDisplay ==
    /\ pc = "call"
    /\ colors' = lab_to_display_color(lab_pixels)
    /\ pc' = "display_returned"
    /\ UNCHANGED <<stages, file, target_dpi, L_values, loaded, image_array,
                   converted, ranges, lab_pixels, fig3d, planes, shown>>

SpecDisplay == InitDisplay /\ [][CallDisplay]_vars

\* ---------------------------------------- plot_ab_planes alone (SpecPlanes)

\* Lab samples around the levels: at distance 5 (45, 55 from 50; 5 from 0),
\* inside (46, 53, 54) and far away.
BandSamples ==
    {<<5, 0, 0>>, <<45, 0, 0>>, <<46, 10, -10>>, <<53, 80, 67>>, <<55, 0, 0>>}

LevelChoices == {0, 20, 50}

InitPlanes ==
    /\ pc = "call"
    /\ stages = <<>>
    /\ file = NoFile
    /\ target_dpi = 0
    /\ L_values \in SeqsUpTo(LevelChoices, MaxLevels)
    /\ loaded = NotLoaded
    /\ image_array = NoArray
    /\ converted = NotConverted
    /\ ranges = <<>>
    /\ lab_pixels \in SeqsUpTo(BandSamples, MaxSamples)
    /\ colors = <<>>
    /\ fig3d = <<>>
    /\ planes = NotPlotted
    /\ shown = FALSE

CallPlanes ==
    /\ pc = "call"
    /\ planes' = plot_ab_planes(lab_pixels, L_values)
    /\ pc' = "planes_returned"
    /\ UNCHANGED <<stages, file, target_dpi, L_values, loaded, image_array,
                   converted, ranges, lab_pixels, colors, fig3d, shown>>

SpecPlanes == InitPlanes /\ [][CallPlanes]_vars

\* ================================================================= claims

\* round(n / d) for n >= 0, d > 0, halves upward.
Round(n, d) == (2 * n + d) \div (2 * d)

LoadReturned == loaded.status # "none"

\* C1: for an image of size (W, H) at a positive original resolution R and a
\* positive target T, the loader resamples to (round(W*T/R), round(H*T/R)).
C1_ResampledSizeIsRounded ==
    (loaded.status = "ok" /\ loaded.original_dpi > 0 /\ target_dpi > 0)
        => loaded.new_size =
               <<Round(file.width * target_dpi, loaded.original_dpi),
                 Round(file.height * target_dpi, loaded.original_dpi)>>

\* What the loader does instead: both sides are truncated.
C1_ResampledSizeIsTruncated ==
    (loaded.status = "ok" /\ loaded.original_dpi > 0 /\ target_dpi > 0)
        => loaded.new_size =
               <<(file.width * target_dpi) \div loaded.original_dpi,
                 (file.height * target_dpi) \div loaded.original_dpi>>

\* C5: resolution metadata that is zero or negative ends the loader in a
\* validation failure before any scale is computed or any resampling is
\* done (no division by zero, no negative scale); absent metadata makes the
\* original resolution 72 and the loader proceeds.
C5_NonPositiveDpiIsRejectedFirst ==
    LoadReturned =>
        /\ (file.dpi # <<>> /\ file.dpi[1] <= 0) =>
              /\ loaded.status = "ValidationError"
              /\ ~loaded.divided_by_zero
              /\ loaded.scale = <<>>
              /\ ~loaded.resize_called
        /\ file.dpi = <<>> =>
              /\ loaded.original_dpi = 72
              /\ loaded.scale = <<target_dpi, 72>>

\* The half of C5 the loader keeps: absent metadata means 72.
C5_AbsentDpiDefaultsTo72 ==
    (LoadReturned /\ file.dpi = <<>>) =>
        /\ loaded.original_dpi = 72
        /\ loaded.scale = <<target_dpi, 72>>
        /\ loaded.resize_called

\* C9: whatever the channel layout of the file, the loader returns a grid
\* with exactly 3 channels per pixel.
C9_LoaderReturnsThreeChannels ==
    loaded.status = "ok" =>
        /\ Len(image_array.shape) = 3
        /\ image_array.shape[3] = 3

StageOrder == <<"load", "convert", "summary", "plot3d", "planes", "show">>

IsPrefix(s, t) == Len(s) <= Len(t) /\ \A i \in 1..Len(s) : s[i] = t[i]

\* C10: in every invocation of analyze_tif_image the stages run in the order
\* load, convert, range summary, 3D scatter, planar panels, display, each
\* exactly once; the display is triggered only after both figures are built;
\* the one way a run stops short is a failed load, after which no later
\* stage runs.
C10_EveryStageRunsOnceInOrder ==
    /\ IsPrefix(stages, StageOrder)
    /\ shown => (Len(stages) = 6 /\ stages[4] = "plot3d" /\ stages[5] = "planes")
    /\ pc = "done" => (stages = StageOrder /\ shown)
    /\ (LoadReturned /\ loaded.status # "ok") => (stages = <<"load">> /\ pc = "failed")
    /\ pc = "failed" => loaded.status # "ok"

\* What holds of the orchestrator: the stages that run do so in order and at
\* most once, a run that completes has run each exactly once, the display
\* follows both figures, and a failed stage is the last one to run.
C10_StagesRunInOrderUntilOneFails ==
    /\ IsPrefix(stages, StageOrder)
    /\ shown => (Len(stages) = 6 /\ stages[4] = "plot3d" /\ stages[5] = "planes"
                 /\ planes.error = "none" /\ Len(fig3d) = Len(lab_pixels))
    /\ pc = "done" => (stages = StageOrder /\ shown)
    /\ (LoadReturned /\ loaded.status # "ok") => (stages = <<"load">> /\ pc = "failed")
    /\ pc = "failed" => ~shown

ConvertReturned == pc = "convert_returned" /\ converted.status = "ok"

\* C4: rgb_to_lab_pixels divides every channel of a byte image by 255, also
\* when the largest byte is 0 or 1, and leaves a unit-range image as it is.
C4_ByteImagesAreDividedBy255 ==
    ConvertReturned =>
        \A i \in 1..Len(converted.rgb_pixels) : \A c \in 1..3 :
            converted.rgb_pixels[i][c] =
                IF image_array.dtype = "uint8"
                THEN image_array.data[3 * (i - 1) + c] \div Byte
                ELSE image_array.data[3 * (i - 1) + c]

\* What the converter does: it divides exactly when some value exceeds 1.
C4_DividedOnlyWhenSomeValueExceedsOne ==
    ConvertReturned =>
        \A i \in 1..Len(converted.rgb_pixels) : \A c \in 1..3 :
            converted.rgb_pixels[i][c] =
                IF \E j \in 1..Len(image_array.data) : image_array.data[j] > One
                THEN image_array.data[3 * (i - 1) + c] \div Byte
                ELSE image_array.data[3 * (i - 1) + c]

\* C6: for an image of width W and height H, entry y*W + x of the Lab output
\* is the Lab conversion of the pixel at row y, column x, entry y*W + x of
\* the RGB output is that pixel as the converter normalised it, and both
\* outputs have W*H entries.
C6_FlatteningIsRowMajor ==
    ConvertReturned =>
        LET H == image_array.shape[1]
            W == image_array.shape[2]
            arr == normalize(image_array)
        IN  /\ Len(converted.lab_pixels) = W * H
            /\ Len(converted.rgb_pixels) = W * H
            /\ \A y \in 0..(H - 1) : \A x \in 0..(W - 1) :
                  /\ converted.rgb_pixels[y * W + x + 1] = PixelAt(arr, y, x)
                  /\ converted.lab_pixels[y * W + x + 1] =
                        Lab_of(img_as_float(arr.dtype, PixelAt(arr, y, x)))

\* A converted 2-by-2 image whose two off-diagonal pixels differ.
C6_Witness ==
    /\ ConvertReturned
    /\ image_array.shape = <<2, 2, 3>>
    /\ PixelAt(image_array, 0, 1) # PixelAt(image_array, 1, 0)
    /\ converted.lab_pixels[2] # converted.lab_pixels[3]

\* C7: every channel of every colour lab_to_display_color returns lies in
\* [0, 1], and there is one colour per Lab triple, in the order of the
\* input: colour i is the conversion of triple i, brought into [0, 1].
C7_DisplayColoursAreClamped ==
    pc = "display_returned" =>
        /\ Len(colors) = Len(lab_pixels)
        /\ \A i \in 1..Len(colors) : \A c \in 1..3 :
              LET raw == lab2rgb(lab_pixels[i])[c]
              IN  /\ 0 <= colors[i][c]
                  /\ colors[i][c] <= One
                  /\ (0 <= raw /\ raw <= One) => colors[i][c] = raw
                  /\ raw < 0 => colors[i][c] = 0
                  /\ raw > One => colors[i][c] = One

\* Colours returned for an out-of-gamut triple (a channel above 1, others
\* below 0) next to an in-gamut one.
C7_Witness ==
    /\ pc = "display_returned"
    /\ Len(colors) >= 2
    /\ \E i \in 1..Len(lab_pixels) :
          /\ lab2rgb(lab_pixels[i])[1] > One
          /\ lab2rgb(lab_pixels[i])[2] < 0
    /\ \E i \in 1..Len(lab_pixels) : colors[i] = lab2rgb(lab_pixels[i])

PlanesReturned == pc = "planes_returned"

\* The positions of the samples within the band of L0, and the position a
\* sample of the band takes among them.
BandIndices(L0) == {i \in 1..Len(lab_pixels) : Abs(lab_pixels[i][1] - L0) < 5}
RankIn(S, i) == Cardinality({j \in S : j <= i})

\* C2: the subset plotted for a level L0 is exactly the samples with
\* |L - L0| < 5 (a sample at distance 5 is left out), in their original
\* order, and the pixel count in the panel title is the size of that subset.
C2_BandIsStrictAndOrdered ==
    (PlanesReturned /\ planes.error = "none") =>
        \A idx \in 1..Len(L_values) :
            LET S == BandIndices(L_values[idx])
                panel == planes.axes[idx]
            IN  /\ Len(panel.points) = Cardinality(S)
                /\ \A i \in S :
                      /\ panel.points[RankIn(S, i)].a = lab_pixels[i][2]
                      /\ panel.points[RankIn(S, i)].b = lab_pixels[i][3]
                /\ S # {} => (panel.kind = "scatter" /\ panel.title[3] = Cardinality(S))
                /\ S = {} => panel.title = <<>>

\* A panel with two or more points, plotted from samples of which one lies
\* at distance exactly 5 from the level and before a plotted one.
C2_Witness ==
    /\ PlanesReturned
    /\ \E idx \in 1..Len(L_values) :
          /\ planes.axes[idx].kind = "scatter"
          /\ Len(planes.axes[idx].points) >= 2
          /\ \E i \in 1..Len(lab_pixels) : \E j \in 1..Len(lab_pixels) :
                /\ i < j
                /\ Abs(lab_pixels[i][1] - L_values[idx]) = 5
                /\ j \in BandIndices(L_values[idx])

EmptyLevels == {i \in 1..Len(L_values) : BandIndices(L_values[i]) = {}}

\* C3: if no sample lies within tolerance of the level at position i, then
\* plot_ab_planes raises no error, prints a warning for that level, renders a
\* placeholder with extents [-128,127] x [-128,127] and still processes
\* every later level; the warnings printed are those of the empty bands, in
\* order, and no others.
C3_EmptyBandIsSkippedWithWarning ==
    (PlanesReturned /\ Len(L_values) >= 1) =>
        /\ Len(planes.stdout) = Cardinality(EmptyLevels)
        /\ \A i \in EmptyLevels :
              /\ planes.error = "none"
              /\ planes.stdout[RankIn(EmptyLevels, i)] = L_values[i]
              /\ planes.axes[i].kind = "placeholder"
              /\ planes.axes[i].xlim = <<-128, 127>>
              /\ planes.axes[i].ylim = <<-128, 127>>
              /\ \A j \in (i + 1)..Len(L_values) :
                    /\ planes.axes[j].kind # "blank"
                    /\ planes.axes[j].xlim = <<-128, 127>>
                    /\ planes.axes[j].ylim = <<-128, 127>>

\* An empty band followed by a level that has samples.
C3_Witness ==
    /\ PlanesReturned
    /\ Len(L_values) = 2
    /\ 1 \in EmptyLevels
    /\ planes.axes[2].kind = "scatter"
    /\ planes.stdout = <<L_values[1]>>

\* C8: whatever the number of requested levels, plot_ab_planes works with an
\* indexable container of as many panel handles as there are levels (one
\* level gives a one-element container, indexing never fails) and produces
\* one panel per level.
C8_OnePanelPerLevelForAnyCount ==
    PlanesReturned =>
        /\ planes.error = "none"
        /\ planes.container \in {"list", "array"}
        /\ Len(planes.axes) = Len(L_values)
        /\ \A i \in 1..Len(planes.axes) : planes.axes[i].kind # "blank"

\* The same for one level or more.
C8_OnePanelPerLevelFromOneLevel ==
    (PlanesReturned /\ Len(L_values) >= 1) =>
        /\ planes.error = "none"
        /\ planes.container \in {"list", "array"}
        /\ Len(planes.axes) = Len(L_values)
        /\ \A i \in 1..Len(planes.axes) : planes.axes[i].kind # "blank"

====
